---- MODULE Spec2Model ----
(***************************************************************************)
(* Model of convert.py: the batch driver (census, staging into <root>/old, *)
(* ThreadPoolExecutor dispatch, result collection) and process_video (one  *)
(* conversion job: probes, ffmpeg subprocess, progress parsing, failure    *)
(* handler).  Paths are sequences of components relative to the scan root; *)
(* a component is a sequence of one-character strings, so that endswith,   *)
(* splitext and the lexicographic sort are computed as Python computes     *)
(* them.                                                                   *)
(***************************************************************************)
EXTENDS Integers, Sequences, FiniteSets, TLC

\* ----------------------------------------------------------------- bounds
\* Largest number of files in the directory tree at start.
MaxFiles == 2
\* Largest number of progress values shown on the bars of one batch before
\* the reading loops stop taking lines.
MaxShown == 2

\* ------------------------------------------------------- program constants
\* ThreadPoolExecutor(max_workers=min(args.max_simultaneous, 5))
HardCap == 5
\* progress = min(99, ...)
ProgressCap == 99
\* pbar_file.n = 100
ProgressDone == 100
\* int(match.group(1)) / 1000000
MicrosPerSecond == 1000000

\* -------------------------------------------------------------- names
OLD    == <<"o", "l", "d">>
A_MP4  == <<"a", ".", "m", "p", "4">>
A_TS   == <<"a", ".", "t", "s">>
A_MKV  == <<"a", ".", "m", "k", "v">>
DOTMKV == <<".", "m", "k", "v">>
DOTMP4 == <<".", "m", "p", "4">>

\* The files a tree may hold at start (paths relative to the scan root):
\* two candidates with the same base name, and one that already has the
\* output extension.
TreeFiles == { <<A_MP4>>, <<A_TS>>, <<A_MKV>> }

\* Values of --input_formats: None (absent), or the list of suffixes given.
NoFormats == [none |-> TRUE, suffixes |-> {}]
Formats(S) == [none |-> FALSE, suffixes |-> S]
InputFormatsValues == { NoFormats, Formats({DOTMP4}) }

\* Values of --max_simultaneous (type=int: any integer is accepted).
MaxSimultaneousValues == { -1, 0, 1, 2, 6 }

\* get_video_duration: the None of a failed probe, and the values
\* float(result) can give (seconds).
None == -1
Durations == { 0, 2 }

\* Lines of the subprocess's output: out_time_ms=<n> for some values n, and
\* a line the regular expression does not match.
Markers == { 0, 500000, 2000000, 3000000 }
Lines == { [match |-> FALSE, out_time_ms |-> 0] }
           \cup { [match |-> TRUE, out_time_ms |-> n] : n \in Markers }

\* None, for an option of type str.
NoneS == "None"

\* Values of the options of lines 177-187 (argparse): --bitrate,
\* --resolution, --preset, --audio_codec, --audio_bitrate, --framerate, --crf,
\* --threads, --audio_filter, --remove_metadata.  The int options accept 0.
ArgsValues ==
  [ bitrate         : { NoneS, "600k" },
    resolution      : { NoneS, "", "1280x720" },
    preset          : { NoneS, "fast" },
    audio_codec     : { "aac" },
    audio_bitrate   : { "128k" },
    framerate       : { None, 0, 24 },
    crf             : { None, 0, 23 },
    threads         : { None, 0, 4 },
    audio_filter    : { NoneS, "volume=1.5" },
    remove_metadata : BOOLEAN ]

\* The parser's defaults.
DefaultArgs ==
  [ bitrate |-> NoneS, resolution |-> NoneS, preset |-> NoneS,
    audio_codec |-> "aac", audio_bitrate |-> "128k", framerate |-> None,
    crf |-> None, threads |-> None, audio_filter |-> NoneS,
    remove_metadata |-> FALSE ]

\* What subprocess.check_output gives for a probe: it raises (tool missing,
\* non-zero exit), or returns the text printed, here as its words.
Raised == [raised |-> TRUE, out |-> <<>>]
Printed(words) == [raised |-> FALSE, out |-> words]

\* nvidia-smi -L, lspci, and ffprobe ... stream=bit_rate.
NvidiaSmiValues == { Raised, Printed(<<"No", "devices">>),
                     Printed(<<"GPU", "0:", "NVIDIA">>) }
LspciValues == { Raised, Printed(<<"VGA", "Intel">>),
                 Printed(<<"VGA", "AMD">>), Printed(<<"VGA", "Radeon">>) }
BitRateValues == { Raised, Printed(<<"N/A">>), Printed(<<>>),
                   Printed(<<"2500000">>) }
Hosts == [ nvidia_smi : NvidiaSmiValues, lspci : LspciValues,
           bit_rate : BitRateValues ]

\* A host with neither accelerator, ffprobe not installed.
PlainHost == [ nvidia_smi |-> Raised, lspci |-> Raised, bit_rate |-> Raised ]

\* ------------------------------------------------ pure helpers (Python)
Min(a, b) == IF a <= b THEN a ELSE b

\* ord(c) for the characters that occur in the names above and "/".
Ord(c) ==
  CASE c = "." -> 46 [] c = "/" -> 47 [] c = "4" -> 52
    [] c = "a" -> 97 [] c = "d" -> 100 [] c = "k" -> 107
    [] c = "l" -> 108 [] c = "m" -> 109 [] c = "o" -> 111
    [] c = "p" -> 112 [] c = "s" -> 115 [] c = "t" -> 116
    [] c = "v" -> 118 [] c = "z" -> 122

\* os.path.join(root, file) as one string: the components joined by "/".
RECURSIVE PathStr(_)
PathStr(p) ==
  IF Len(p) = 0 THEN <<>>
  ELSE IF Len(p) = 1 THEN p[1]
  ELSE p[1] \o <<"/">> \o PathStr(Tail(p))

\* Python's str < str: lexicographic on code points, a proper prefix first.
RECURSIVE StrLess(_, _)
StrLess(s, t) ==
  IF Len(t) = 0 THEN FALSE
  ELSE IF Len(s) = 0 THEN TRUE
  ELSE IF Ord(s[1]) # Ord(t[1]) THEN Ord(s[1]) < Ord(t[1])
  ELSE StrLess(Tail(s), Tail(t))

\* list.sort() of a set of distinct paths.
RECURSIVE SortPaths(_)
SortPaths(S) ==
  IF S = {} THEN <<>>
  ELSE LET m == CHOOSE x \in S :
                  \A y \in S \ {x} : StrLess(PathStr(x), PathStr(y))
       IN <<m>> \o SortPaths(S \ {m})

\* str.endswith(suffix)
EndsWith(s, suf) ==
  /\ Len(suf) <= Len(s)
  /\ SubSeq(s, Len(s) - Len(suf) + 1, Len(s)) = suf

\* The census test: args.input_formats is None or
\* file.endswith(tuple(args.input_formats)).
Selected(name, formats) ==
  \/ formats.none
  \/ \E suf \in formats.suffixes : EndsWith(name, suf)

\* os.path.splitext(name)[0]: cut at the last dot of the base name, unless
\* only dots precede it.
SplitextRoot(name) ==
  LET dots == { i \in 1..Len(name) : name[i] = "." }
  IN IF dots = {} THEN name
     ELSE LET d == CHOOSE i \in dots : \A k \in dots : k <= i
          IN IF \E i \in 1..(d - 1) : name[i] # "."
             THEN SubSeq(name, 1, d - 1)
             ELSE name

Front(p) == SubSeq(p, 1, Len(p) - 1)
Last(p)  == p[Len(p)]

\* os.path.join(old_directory, os.path.relpath(file, directory))
OldFullName(file) == <<OLD>> \o file

\* os.path.splitext(os.path.join(directory, relpath))[0] + output_format
OutputName(file, output_format) ==
  Front(file) \o << SplitextRoot(Last(file)) \o output_format >>

\* os.path.dirname
Dirname(p) == Front(p)

\* every directory os.makedirs(d, exist_ok=True) leaves in place
Ancestors(d) == { SubSeq(d, 1, k) : k \in 0..Len(d) }

\* "word" in text
In(word, text) == \E i \in 1..Len(text) : text[i] = word

\* A str built from its characters.
RECURSIVE Text(_)
Text(chars) == IF Len(chars) = 0 THEN "" ELSE chars[1] \o Text(Tail(chars))

\* int(result) for what ffprobe prints as a bit rate.
IntOf(word) == CASE word = "2500000" -> 2500000

\* bool(x) for an option of type int / of type str.
TruthyInt(n) == n # None /\ n # 0
TruthyStr(t) == t # NoneS /\ t # ""

\* detect_gpu probing lspci first.
detect_gpu_amd_first(h) ==
  IF ~h.lspci.raised /\ (In("AMD", h.lspci.out) \/ In("Radeon", h.lspci.out))
    THEN "amd"
  ELSE IF ~h.nvidia_smi.raised /\ In("GPU", h.nvidia_smi.out)
    THEN "nvidia"
  ELSE "cpu"

\* Lines 10-25: nvidia-smi first, then lspci; an exception of a probe is
\* passed over.
detect_gpu(h) ==
  IF ~h.nvidia_smi.raised /\ In("GPU", h.nvidia_smi.out)
    THEN "nvidia"
  ELSE IF ~h.lspci.raised /\ (In("AMD", h.lspci.out) \/ In("Radeon", h.lspci.out))
    THEN "amd"
  ELSE "cpu"

\* Lines 41-54: "<kbit/s>k", or "6000k" when the probe raises or prints N/A
\* or nothing.
get_original_bitrate(h) ==
  IF h.bit_rate.raised \/ Len(h.bit_rate.out) = 0 \/ h.bit_rate.out[1] = "N/A"
    THEN "6000k"
    ELSE ToString(IntOf(h.bit_rate.out[1]) \div 1000) \o "k"

\* The optional flags with --crf tested like the other options.
OptionalFlagsCrfTruthy(a) ==
     (IF TruthyStr(a.resolution)
        THEN << "-vf", "scale=" \o a.resolution >> ELSE <<>>)
  \o (IF TruthyInt(a.framerate) THEN << "-r", ToString(a.framerate) >> ELSE <<>>)
  \o (IF TruthyInt(a.crf) THEN << "-crf", ToString(a.crf) >> ELSE <<>>)
  \o (IF TruthyInt(a.threads) THEN << "-threads", ToString(a.threads) >> ELSE <<>>)
  \o (IF TruthyStr(a.audio_filter) THEN << "-af", a.audio_filter >> ELSE <<>>)
  \o (IF a.remove_metadata THEN << "-map_metadata", "-1" >> ELSE <<>>)

\* Lines 102-118: the command.extend calls, in their order.
OptionalFlags(a) ==
     (IF TruthyStr(a.resolution)
        THEN << "-vf", "scale=" \o a.resolution >> ELSE <<>>)
  \o (IF TruthyInt(a.framerate) THEN << "-r", ToString(a.framerate) >> ELSE <<>>)
  \o (IF a.crf # None THEN << "-crf", ToString(a.crf) >> ELSE <<>>)
  \o (IF TruthyInt(a.threads) THEN << "-threads", ToString(a.threads) >> ELSE <<>>)
  \o (IF TruthyStr(a.audio_filter) THEN << "-af", a.audio_filter >> ELSE <<>>)
  \o (IF a.remove_metadata THEN << "-map_metadata", "-1" >> ELSE <<>>)

\* ------------------------------------------------------ the file system
\* A file's content: the source of an initial file, or the output the
\* subprocess of a job wrote for a candidate.
Src(p)    == [k |-> "src", of |-> p]
Output(p) == [k |-> "out", of |-> p]

Exists(f, p) == p \in DOMAIN f
Put(f, p, c) == [q \in (DOMAIN f) \cup {p} |-> IF q = p THEN c ELSE f[q]]
Remove(f, p) == [q \in (DOMAIN f) \ {p} |-> f[q]]
\* os.rename on POSIX: replaces an existing destination file silently.
Rename(f, a, b) == Put(Remove(f, a), b, f[a])

VARIABLES
  fs,                \* the files under the scan root: path -> content
  dirs,              \* the directories under the scan root
  input_formats,     \* args.input_formats
  output_format,     \* args.output_format
  max_simultaneous,  \* args.max_simultaneous
  pc,                \* position of the main thread
  files_to_convert,  \* the census result
  si,                \* staging loop: index of the next file to stage
  ci,                \* collection loop: index of the next future awaited
  threads,           \* pool: per worker thread, the job it runs (0: none)
  idle,              \* pool: the idle semaphore
  job,               \* per candidate, the state of its process_video call
  args,              \* the other options of the command line (lines 177-187)
  host,              \* what the probes of the host and of the video print
  gpu_type,          \* detect_gpu()
  video_encoder,     \* lines 214-219
  preset,            \* lines 214-219
  command            \* the list process_video hands to subprocess.Popen

vars == << fs, dirs, input_formats, output_format, max_simultaneous, pc,
           files_to_convert, si, ci, threads, idle, job,
           args, host, gpu_type, video_encoder, preset, command >>

config == << input_formats, output_format, max_simultaneous >>

\* The values of the set-up: the options, the probes' outputs, the hardware
\* profile and the command line built from them.
setup == << args, host, gpu_type, video_encoder, preset, command >>


\* ------------------------------------------------- process_video: state
NoPath == <<>>

\* A job before executor.submit: nothing of process_video has run.
NewJob ==
  [ pc             |-> "unsubmitted",
    input          |-> NoPath,    \* the path after "-i" and given to ffprobe
    video_duration |-> None,
    last_progress  |-> 0,
    emitted        |-> <<>>,      \* the values shown on the job's bar, in order
    proc           |-> "none",    \* the subprocess: none, running, written
                                  \* (running, its output file created),
                                  \* exit0, exit1
    restored       |-> FALSE ]    \* os.rename(old_full_name, file) was done

Jobs == 1..Len(files_to_convert)
Terminated(j) == job[j].pc \in {"ok", "failed", "raised"}
Running(j) == job[j].pc \notin {"unsubmitted", "queued", "ok", "failed", "raised"}
RunningJobs == { j \in Jobs : Running(j) }

\* bool(video_duration): None and 0.0 are false.
Truthy(d) == d # None /\ d # 0

\* Progress without the cap at 99.
ProgressUncapped(out_time_ms, video_duration) ==
  (out_time_ms * 100) \div (MicrosPerSecond * video_duration)

\* min(99, int((out_time_ms / 1000000) / video_duration * 100))
Progress(out_time_ms, video_duration) ==
  Min(ProgressCap, (out_time_ms * 100) \div (MicrosPerSecond * video_duration))

\* Reading the video from where the census found it.
InputPathOriginal(file) == file

\* The path process_video reads the video from (probes and "-i").
InputPath(file) == OldFullName(file)

\* max_workers of the pool.
MaxWorkers == Min(max_simultaneous, HardCap)

\* The paths the call process_video(file, ...) touches: the original path
\* (renamed to, line 167), old_full_name (line 73: read, renamed from) and
\* output_name (lines 74-75: written, removed).
JobPaths(file) ==
  { file, OldFullName(file), OutputName(file, output_format) }

\* ------------------------------------------------------------------ Init
Trees == { S \in SUBSET TreeFiles : Cardinality(S) \in 1..MaxFiles }

Init ==
  /\ \E S \in Trees :
       /\ fs = [p \in S |-> Src(p)]
       /\ dirs = UNION { Ancestors(Dirname(p)) : p \in S }
  /\ input_formats \in InputFormatsValues
  /\ output_format = DOTMKV
  /\ max_simultaneous \in MaxSimultaneousValues
  /\ pc = "census"
  /\ files_to_convert = <<>>
  /\ si = 1
  /\ ci = 1
  /\ threads = <<>>
  /\ idle = 0
  /\ job = <<>>
  /\ args = DefaultArgs
  /\ host = PlainHost
  /\ gpu_type = ""
  /\ video_encoder = ""
  /\ preset = ""
  /\ command = <<>>

\* ----------------------------------------------------------- main thread
\* Lines 198-209 and the test of line 221: os.walk, filter, sort.
Census ==
  /\ pc = "census"
  /\ LET found == { p \in DOMAIN fs : Selected(Last(p), input_formats) }
     IN /\ files_to_convert' = SortPaths(found)
        /\ job' = [j \in 1..Cardinality(found) |-> NewJob]
        /\ pc' = IF Cardinality(found) > 0 THEN "mkold" ELSE "done"
  /\ UNCHANGED << fs, dirs, config, setup, si, ci, threads, idle >>

\* Lines 222-224: create <root>/old unless it exists; os.mkdir may raise.
MkOld ==
  /\ pc = "mkold"
  /\ \/ /\ dirs' = dirs \cup {<<OLD>>}
        /\ pc' = "staging"
     \/ /\ <<OLD>> \notin dirs
        /\ pc' = "aborted"
        /\ UNCHANGED dirs
  /\ UNCHANGED << fs, config, setup, files_to_convert, si, ci, threads, idle, job >>

\* A staging loop whose failure is swallowed: the script goes on to the pool.
StageIgnoresFailure ==
  /\ pc = "staging"
  /\ si <= Len(files_to_convert)
  /\ LET file == files_to_convert[si]
         old_full_name == OldFullName(file)
     IN \/ /\ Exists(fs, file)
           /\ dirs' = dirs \cup Ancestors(Dirname(old_full_name))
           /\ fs' = Rename(fs, file, old_full_name)
           /\ si' = si + 1
           /\ pc' = IF si = Len(files_to_convert) THEN "pool" ELSE "staging"
        \/ /\ pc' = "pool"
           /\ UNCHANGED << fs, dirs, si >>
  /\ UNCHANGED << config, setup, files_to_convert, ci, threads, idle, job >>

\* Lines 227-230, one iteration: makedirs of the staging parent and the
\* rename of the file into staging; either may raise (OSError), which ends
\* the script before the pool exists.
Stage ==
  /\ pc = "staging"
  /\ si <= Len(files_to_convert)
  /\ LET file == files_to_convert[si]
         old_full_name == OldFullName(file)
     IN \/ /\ Exists(fs, file)
           /\ dirs' = dirs \cup Ancestors(Dirname(old_full_name))
           /\ fs' = Rename(fs, file, old_full_name)
           /\ si' = si + 1
           /\ pc' = IF si = Len(files_to_convert) THEN "pool" ELSE "staging"
        \/ /\ pc' = "aborted"
           /\ UNCHANGED << fs, dirs, si >>
  /\ UNCHANGED << config, setup, files_to_convert, ci, threads, idle, job >>

\* Line 232: ThreadPoolExecutor(max_workers=...) raises ValueError when
\* max_workers <= 0.
MkPool ==
  /\ pc = "pool"
  /\ pc' = IF MaxWorkers <= 0 THEN "crashed" ELSE "submit"
  /\ UNCHANGED << fs, dirs, config, setup, files_to_convert, si, ci, threads, idle,
                  job >>

\* A pool that starts a thread whenever none is idle, whatever max_workers.
SpawnsThreadUnbounded == idle = 0

\* Whether submit starts a new worker thread: no idle thread, and fewer
\* than max_workers threads.
SpawnsThread == idle = 0 /\ Len(threads) < MaxWorkers

\* Line 233, one executor.submit: the work item is queued; a thread is
\* started when none is idle and the pool is not full.
Submit ==
  /\ pc = "submit"
  /\ \E j \in Jobs :
       /\ job[j].pc = "unsubmitted"
       /\ \A i \in 1..(j - 1) : job[i].pc # "unsubmitted"
       /\ job' = [job EXCEPT ![j].pc = "queued"]
       /\ IF idle > 0
            THEN idle' = idle - 1 /\ UNCHANGED threads
            ELSE /\ UNCHANGED idle
                 /\ threads' = IF SpawnsThread THEN Append(threads, 0)
                               ELSE threads
       /\ pc' = IF j = Len(files_to_convert) THEN "collect" ELSE "submit"
  /\ UNCHANGED << fs, dirs, config, setup, files_to_convert, si, ci >>

\* Lines 234-235, one future.result(): blocks until the future is done and
\* re-raises the exception of its call.
Collect ==
  /\ pc = "collect"
  /\ ci <= Len(files_to_convert)
  /\ Terminated(ci)
  /\ IF job[ci].pc = "raised"
       THEN pc' = "shutdown" /\ UNCHANGED ci
       ELSE /\ ci' = ci + 1
            /\ pc' = IF ci = Len(files_to_convert) THEN "done" ELSE "collect"
  /\ UNCHANGED << fs, dirs, config, setup, files_to_convert, si, threads, idle, job >>

\* The n of the bar tqdm(futures, desc="Total Progress"): the number of
\* futures the loop of line 234 has got past.
TotalProgress == ci - 1

\* The exception leaves the with block: executor.shutdown(wait=True) lets
\* every submitted call run, then the exception ends the script.
Shutdown ==
  /\ pc = "shutdown"
  /\ \A j \in Jobs : Terminated(j)
  /\ pc' = "propagated"
  /\ UNCHANGED << fs, dirs, config, setup, files_to_convert, si, ci, threads, idle,
                  job >>


\* ---------------------------------------------------------- worker pool
\* The call of job j has returned or raised: its future is done, and its
\* worker thread is idle again.
Release(j) ==
  /\ threads' = [w \in DOMAIN threads |->
                   IF threads[w] = j THEN 0 ELSE threads[w]]
  /\ idle' = idle + 1

\* The progress values shown so far on all bars of the batch.
Shown == { ji \in Jobs \X (1..(MaxShown + 1)) : ji[2] <= Len(job[ji[1]].emitted) }

\* ------------------------------------------------------- process_video
\* An idle worker thread takes the oldest queued work item and calls
\* process_video, which runs up to subprocess.Popen (lines 72-135): the two
\* paths, makedirs of the output's parent, the probes of the staged file,
\* the command line, the launch.  os.makedirs may raise OSError and Popen
\* raises FileNotFoundError when ffmpeg is not installed; the except clause
\* of line 162 catches neither.  The threads of the pool run the same loop
\* and hold no data of their own, so of the idle threads the first one is
\* taken to be the one that wins the work item.
Start(w, j) ==
  /\ w \in 1..Len(threads)
  /\ threads[w] = 0
  /\ \A v \in 1..(w - 1) : threads[v] # 0
  /\ job[j].pc = "queued"
  /\ \A i \in 1..(j - 1) : job[i].pc # "queued"
  /\ LET file == files_to_convert[j]
         output_name == OutputName(file, output_format)
     IN \/ /\ dirs' = dirs \cup Ancestors(Dirname(output_name))
           /\ \E d \in Durations \cup {None} :
                /\ Exists(fs, InputPath(file)) \/ d = None
                /\ job' = [job EXCEPT ![j].pc = "read",
                                      ![j].input = InputPath(file),
                                      ![j].video_duration = d,
                                      ![j].proc = "running"]
           /\ threads' = [threads EXCEPT ![w] = j]
        \/ /\ job' = [job EXCEPT ![j].pc = "raised"]
           /\ dirs' \in {dirs, dirs \cup Ancestors(Dirname(output_name))}
           /\ UNCHANGED threads
  /\ idle' = IF job'[j].pc = "raised" THEN idle + 1 ELSE idle
  /\ UNCHANGED << fs, config, setup, pc, files_to_convert, si, ci >>

\* The loop body without the test progress > last_progress: every matched
\* line is shown.
ReadLineNoDedup(j, line) ==
  /\ job[j].pc = "read"
  /\ job[j].proc \in {"running", "written"}
  /\ Cardinality(Shown) < MaxShown
  /\ IF line.match /\ Truthy(job[j].video_duration)
       THEN LET progress == Progress(line.out_time_ms, job[j].video_duration)
            IN job' = [job EXCEPT ![j].emitted = Append(@, progress),
                                  ![j].last_progress = progress]
       ELSE UNCHANGED job
  /\ UNCHANGED << fs, dirs, config, setup, pc, files_to_convert, si, ci, threads,
                  idle >>

\* Lines 139-149, one iteration: one line of the subprocess's output.
ReadLine(j, line) ==
  /\ job[j].pc = "read"
  /\ job[j].proc \in {"running", "written"}
  /\ Cardinality(Shown) < MaxShown
  /\ IF line.match /\ Truthy(job[j].video_duration)
       THEN LET progress == Progress(line.out_time_ms, job[j].video_duration)
            IN IF progress > job[j].last_progress
                 THEN job' = [job EXCEPT
                                ![j].emitted = Append(@, progress),
                                ![j].last_progress = progress]
                 ELSE UNCHANGED job
       ELSE UNCHANGED job
  /\ UNCHANGED << fs, dirs, config, setup, pc, files_to_convert, si, ci, threads,
                  idle >>

\* The subprocess (ffmpeg -i <input> ... <output_name>) opens its input and
\* creates its output file, replacing a file already at that path.
SubWrite(j) ==
  /\ job[j].proc = "running"
  /\ Exists(fs, job[j].input)
  /\ LET file == files_to_convert[j]
     IN fs' = Put(fs, OutputName(file, output_format), Output(file))
  /\ job' = [job EXCEPT ![j].proc = "written"]
  /\ UNCHANGED << dirs, config, setup, pc, files_to_convert, si, ci, threads, idle >>

\* Lines 151-160: the subprocess exits (with code 0 only after it has
\* written its output, with a non-zero code at any time), the stream ends
\* and process.wait() returns; then either CalledProcessError is raised (to
\* the handler of line 162) or the bar is set to 100 and the call returns.
JobWait(j, returncode) ==
  /\ job[j].pc = "read"
  /\ job[j].proc \in {"running", "written"}
  /\ returncode = 0 => job[j].proc = "written"
  /\ IF returncode # 0
       THEN /\ job' = [job EXCEPT ![j].pc = "h_exists", ![j].proc = "exit1"]
            /\ UNCHANGED << threads, idle >>
       ELSE /\ job' = [job EXCEPT ![j].pc = "ok", ![j].proc = "exit0",
                                  ![j].emitted = Append(@, ProgressDone)]
            /\ Release(j)
  /\ UNCHANGED << fs, dirs, config, setup, pc, files_to_convert, si, ci >>

\* Line 165: os.path.exists(output_name).
HandlerExists(j) ==
  /\ job[j].pc = "h_exists"
  /\ LET output_name == OutputName(files_to_convert[j], output_format)
     IN job' = [job EXCEPT ![j].pc = IF Exists(fs, output_name)
                                       THEN "h_remove" ELSE "h_rename"]
  /\ UNCHANGED << fs, dirs, config, setup, pc, files_to_convert, si, ci, threads,
                  idle >>

\* Line 166: os.remove(output_name); FileNotFoundError, raised inside the
\* handler, leaves process_video.
HandlerRemove(j) ==
  /\ job[j].pc = "h_remove"
  /\ LET output_name == OutputName(files_to_convert[j], output_format)
     IN IF Exists(fs, output_name)
          THEN /\ fs' = Remove(fs, output_name)
               /\ job' = [job EXCEPT ![j].pc = "h_rename"]
               /\ UNCHANGED << threads, idle >>
          ELSE /\ job' = [job EXCEPT ![j].pc = "raised"]
               /\ Release(j)
               /\ UNCHANGED fs
  /\ UNCHANGED << dirs, config, setup, pc, files_to_convert, si, ci >>

\* Line 167: os.rename(old_full_name, file), then process_video returns;
\* FileNotFoundError when nothing is at old_full_name.
HandlerRename(j) ==
  /\ job[j].pc = "h_rename"
  /\ LET file == files_to_convert[j]
         old_full_name == OldFullName(file)
     IN IF Exists(fs, old_full_name)
          THEN /\ fs' = Rename(fs, old_full_name, file)
               /\ job' = [job EXCEPT ![j].pc = "failed",
                                     ![j].restored = TRUE]
          ELSE /\ job' = [job EXCEPT ![j].pc = "raised"]
               /\ UNCHANGED fs
  /\ Release(j)
  /\ UNCHANGED << dirs, config, setup, pc, files_to_convert, si, ci >>

\* ------------------------------------------------------------------ Next
Next ==
  \/ Census
  \/ MkOld
  \/ Stage
  \/ MkPool
  \/ Submit
  \/ Collect
  \/ Shutdown
  \/ \E w \in 1..Len(threads), j \in Jobs : Start(w, j)
  \/ \E j \in Jobs, line \in Lines : ReadLine(j, line)
  \/ \E j \in Jobs : SubWrite(j)
  \/ \E j \in Jobs, returncode \in {0, 1} : JobWait(j, returncode)
  \/ \E j \in Jobs : HandlerExists(j)
  \/ \E j \in Jobs : HandlerRemove(j)
  \/ \E j \in Jobs : HandlerRename(j)

Spec == Init /\ [][Next]_vars


\* ------------------------------------------------------------ a second run
\* What a run over a directory holding a.mp4 leaves behind: after a
\* success the consumed original in old/ and the output a.mkv; after a run
\* that ended between staging and the jobs, the original in old/.
RerunTrees ==
  { [p \in { <<OLD, A_MP4>>, <<A_MKV>> } |->
       IF p = <<A_MKV>> THEN Output(<<A_MP4>>) ELSE Src(<<A_MP4>>)],
    [p \in { <<OLD, A_MP4>> } |-> Src(<<A_MP4>>)] }

\* The script started again over the same root.
InitRerun ==
  /\ fs \in RerunTrees
  /\ dirs = { <<>>, <<OLD>> }
  /\ input_formats \in InputFormatsValues
  /\ output_format = DOTMKV
  /\ max_simultaneous \in MaxSimultaneousValues
  /\ pc = "census"
  /\ files_to_convert = <<>>
  /\ si = 1
  /\ ci = 1
  /\ threads = <<>>
  /\ idle = 0
  /\ job = <<>>
  /\ args = DefaultArgs
  /\ host = PlainHost
  /\ gpu_type = ""
  /\ video_encoder = ""
  /\ preset = ""
  /\ command = <<>>

SpecRerun == InitRerun /\ [][Next]_vars

\* ------------------------------------------------ set-up and command line
\* The set-up of one conversion, for every host and every combination of
\* options: detect_gpu, the encoder and preset, and the command line that
\* process_video builds for a staged file.
InitSetup ==
  /\ fs = [p \in { OldFullName(<<A_MP4>>) } |-> Src(<<A_MP4>>)]
  /\ dirs = { <<>>, <<OLD>> }
  /\ input_formats = NoFormats
  /\ output_format = DOTMKV
  /\ max_simultaneous = HardCap
  /\ pc = "detect"
  /\ files_to_convert = << <<A_MP4>> >>
  /\ si = 2
  /\ ci = 1
  /\ threads = <<>>
  /\ idle = 0
  /\ job = << NewJob >>
  /\ args \in ArgsValues
  /\ host \in Hosts
  /\ gpu_type = ""
  /\ video_encoder = ""
  /\ preset = ""
  /\ command = <<>>

\* Line 211.
DetectGpu ==
  /\ pc = "detect"
  /\ gpu_type' = detect_gpu(host)
  /\ pc' = "select"
  /\ UNCHANGED << fs, dirs, config, files_to_convert, si, ci, threads, idle,
                  job, args, host, video_encoder, preset, command >>

\* Lines 214-219.
SelectEncoder ==
  /\ pc = "select"
  /\ IF gpu_type = "nvidia" \/ gpu_type = "amd"
       THEN /\ video_encoder' = IF gpu_type = "nvidia" THEN "hevc_nvenc"
                                ELSE "hevc_amf"
            /\ preset' = IF TruthyStr(args.preset) THEN args.preset ELSE "slow"
       ELSE /\ video_encoder' = "libx265"
            /\ preset' = IF TruthyStr(args.preset) THEN args.preset
                         ELSE "veryslow"
  /\ pc' = "command"
  /\ UNCHANGED << fs, dirs, config, files_to_convert, si, ci, threads, idle,
                  job, args, host, gpu_type, command >>

\* Lines 73-75 and 82-120 for the staged file: the bitrate, the fixed part
\* of the list, the optional flags, the output path.
BuildCommand ==
  /\ pc = "command"
  /\ LET file == files_to_convert[1]
         old_full_name == OldFullName(file)
         output_name == OutputName(file, output_format)
         video_bitrate == IF TruthyStr(args.bitrate) THEN args.bitrate
                          ELSE get_original_bitrate(host)
     IN command' =
          << "ffmpeg", "-i", Text(PathStr(old_full_name)),
             "-c:v", video_encoder, "-b:v", video_bitrate,
             "-preset", preset, "-c:a", args.audio_codec,
             "-b:a", args.audio_bitrate, "-progress", "pipe:1" >>
          \o OptionalFlags(args)
          \o << Text(PathStr(output_name)) >>
  /\ pc' = "built"
  /\ UNCHANGED << fs, dirs, config, files_to_convert, si, ci, threads, idle,
                  job, args, host, gpu_type, video_encoder, preset >>

NextSetup ==
  \/ DetectGpu
  \/ SelectEncoder
  \/ BuildCommand

SpecSetup == InitSetup /\ [][NextSetup]_vars


\* ================================================================ claims
Holds(p, c) == Exists(fs, p) /\ fs[p] = c
Candidates == { files_to_convert[j] : j \in Jobs }
CensusDone == pc # "census"

\* C1: file conservation.  At every point after the census, the source
\* content of each candidate is at exactly one of its original path and its
\* staging path old/<relative path>, and nowhere else: never lost, never at
\* both.
C1_FileConservation ==
  CensusDone =>
    \A c \in Candidates :
      /\ { p \in DOMAIN fs : fs[p] = Src(c) } \subseteq {c, OldFullName(c)}
      /\ Holds(c, Src(c)) # Holds(OldFullName(c), Src(c))


\* C2: for every record whose job has terminated, by whatever path, exactly
\* one of {converted, restored} has happened.
Converted(j) == job[j].pc = "ok"
Restored(j)  == job[j].restored
C2_ExactlyOneOutcome ==
  \A j \in Jobs : Terminated(j) => (Converted(j) # Restored(j))

\* C3: when the subprocess of a job has exited with a non-zero code, then at
\* the step in which the job returns the original is back at its original
\* path, nothing is at the record's staging path, and no output is at the
\* job's output path.
C3_FailureRestores ==
  [][ \A j \in Jobs :
        ( /\ job[j].proc = "exit1"
          /\ ~Terminated(j)
          /\ job'[j].pc \in {"ok", "failed", "raised"} )
        => LET c == files_to_convert[j]
               output_name == OutputName(c, output_format)
           IN /\ Exists(fs', c) /\ fs'[c] = Src(c)
              /\ ~Exists(fs', OldFullName(c))
              /\ ~(Exists(fs', output_name) /\ fs'[output_name].k = "out")
    ]_vars

\* C4: when a job has succeeded, then at the end of the batch a file is at
\* its output path and nothing of the source is at the original path.
BatchEnded == pc \in {"done", "propagated"}
C4_SuccessLeavesOutput ==
  BatchEnded =>
    \A j \in Jobs :
      job[j].pc = "ok" =>
        LET c == files_to_convert[j]
        IN /\ Exists(fs, OutputName(c, output_format))
           /\ ~Holds(c, Src(c))

\* C5 as stated: in every reachable state the number of running jobs is at
\* most min(max_simultaneous, 5), and each worker runs one job at a time, to
\* completion.
OneJobPerWorker ==
  /\ \A w \in 1..Len(threads) : threads[w] # 0 => Running(threads[w])
  /\ \A j \in RunningJobs :
       Cardinality({ w \in 1..Len(threads) : threads[w] = j }) = 1
C5_AsStated ==
  /\ Cardinality(RunningJobs) <= Min(max_simultaneous, HardCap)
  /\ OneJobPerWorker

\* C5, amended: in every reachable state the number of running jobs is at
\* most max(0, min(max_simultaneous, 5)), and each worker runs one job at a
\* time, to completion.
C5_BoundedConcurrency ==
  /\ Cardinality(RunningJobs) <=
       (IF Min(max_simultaneous, HardCap) < 0 THEN 0
        ELSE Min(max_simultaneous, HardCap))
  /\ OneJobPerWorker
\* The pool is full (as many running jobs as max_workers) and a job waits.
C5_Witness ==
  /\ Cardinality(RunningJobs) = Min(max_simultaneous, HardCap)
  /\ \E j \in Jobs : job[j].pc = "queued"

\* C6: every candidate's job is started and terminates before the batch
\* ends, for any number of candidates and any pool size (the end of the
\* script by a relocation failure is not covered by the claim).
C6_EveryJobRunsToItsEnd ==
  pc \in {"done", "crashed", "propagated"} => \A j \in Jobs : Terminated(j)

\* C7: relocation barrier.  No job is submitted or started before every
\* candidate has been renamed into staging, and a job reads its video from
\* its staging path, never from the original path.
C7_RelocationBarrier ==
  /\ (\E j \in Jobs : job[j].pc # "unsubmitted") => si > Len(files_to_convert)
  /\ \A j \in Jobs :
       /\ job[j].proc # "none" => job[j].input # NoPath
       /\ job[j].input # NoPath =>
            /\ job[j].input = OldFullName(files_to_convert[j])
            /\ job[j].input # files_to_convert[j]
\* Two jobs are past staging, one of them with its subprocess running.
C7_Witness ==
  /\ Len(files_to_convert) = 2
  /\ \E j \in Jobs : job[j].proc = "running"

\* C8: the progress values shown for a job are strictly increasing from one
\* to the next, within [0, 100], and at most 99 while the subprocess runs.
C8_ProgressMonotonic ==
  \A j \in Jobs :
    \A i \in 1..Len(job[j].emitted) :
      /\ job[j].emitted[i] \in 0..ProgressDone
      /\ i > 1 => job[j].emitted[i - 1] < job[j].emitted[i]
      /\ job[j].proc \in {"running", "written"} =>
           job[j].emitted[i] <= ProgressCap
\* A marker inside the duration, then one beyond it, were both shown.
C8_Witness ==
  \E j \in Jobs : job[j].proc = "running" /\ job[j].emitted = <<25, 99>>

\* C9: 100 is shown exactly once for a job that succeeds, after its
\* subprocess has exited with code 0, and never for a job that does not;
\* with no duration (None or 0) nothing but that 100 is shown.
Count100(e) == Cardinality({ i \in 1..Len(e) : e[i] = ProgressDone })
C9_TerminalProgress ==
  \A j \in Jobs :
    /\ Count100(job[j].emitted) = (IF job[j].pc = "ok" THEN 1 ELSE 0)
    /\ Count100(job[j].emitted) > 0 => job[j].proc = "exit0"
    /\ ~Truthy(job[j].video_duration) =>
         \A i \in 1..Len(job[j].emitted) : job[j].emitted[i] = ProgressDone
\* A job whose duration probe gave 0 has succeeded.
C9_Witness ==
  \E j \in Jobs :
    /\ job[j].pc = "ok"
    /\ job[j].video_duration = 0
    /\ job[j].emitted = <<ProgressDone>>

\* C10: a fault inside a job other than a non-zero exit is turned into a
\* Failure outcome of that job: no call of process_video raises, and no
\* exception reaches the result-collection loop.
C10_FaultContained ==
  /\ \A j \in Jobs : job[j].pc # "raised"
  /\ pc \notin {"shutdown", "propagated"}

\* C11: when creating the staging directory or renaming a candidate into
\* staging fails, at whichever candidate, the script ends there: the main
\* thread leaves the staging loop with a candidate unstaged only by
\* aborting, no job is ever submitted or started, no subprocess launched and
\* no output file created.
C11_RelocationAbort ==
  (pc \notin {"census", "mkold", "staging"} /\ si <= Len(files_to_convert)) =>
    /\ pc = "aborted"
    /\ \A j \in Jobs : job[j].pc = "unsubmitted" /\ job[j].proc = "none"
    /\ \A p \in DOMAIN fs : fs[p].k # "out"
\* The rename of the second of two candidates failed, the first is staged.
C11_Witness ==
  /\ pc = "aborted"
  /\ Len(files_to_convert) = 2
  /\ si = 2
  /\ Exists(fs, OldFullName(files_to_convert[1]))

\* C12: for any two distinct candidates of a batch, the paths one job reads,
\* writes, deletes or renames (original, staging and output path) are
\* disjoint from the other's.
C12_DisjointPaths ==
  \A i, j \in Jobs :
    i # j => JobPaths(files_to_convert[i]) \cap JobPaths(files_to_convert[j]) = {}

\* C13: the census selects exactly the files for which the filter is absent
\* or whose name ends with one of the given suffixes; a file that is not
\* selected is never staged, renamed, deleted or overwritten by any step of
\* the batch; and when nothing is selected no directory is created.
C13_CensusFrame ==
  [][ /\ pc = "census" =>
           /\ Candidates' =
                { p \in DOMAIN fs :
                    \/ input_formats = NoFormats
                    \/ \E suf \in input_formats.suffixes : EndsWith(Last(p), suf) }
           /\ Candidates' = {} => (pc' = "done" /\ dirs' = dirs)
      /\ \A p \in DOMAIN fs :
           (fs[p] = Src(p) /\ ~Selected(Last(p), input_formats)) =>
             (Exists(fs', p) /\ fs'[p] = Src(p))
    ]_vars

\* C14: a job whose subprocess exited with a non-zero code returns normally;
\* the script never ends by an exception of such a job, and when the batch
\* loop has completed every candidate's job has run to its end.
C14_FailureDoesNotStopBatch ==
  /\ \A j \in Jobs : job[j].proc = "exit1" => job[j].pc # "raised"
  /\ pc \in {"shutdown", "propagated"} => job[ci].proc # "exit1"
  /\ pc = "done" => \A j \in Jobs : Terminated(j)

\* C15: a job becomes a Success (bar forced to 100, original left in
\* staging) only when its subprocess exited with code 0 and a file is at its
\* output path at that moment.
C15_SuccessRequiresOutput ==
  [][ \A j \in Jobs :
        (job[j].pc # "ok" /\ job'[j].pc = "ok") =>
          /\ job'[j].proc = "exit0"
          /\ Exists(fs', OutputName(files_to_convert[j], output_format))
    ]_vars

\* C16: results are collected in completion order: whenever the collection
\* loop is waiting for a result, the aggregate progress indicator equals the
\* number of jobs that have returned so far.
C16_CompletionOrder ==
  (pc = "collect" /\ ci <= Len(files_to_convert) /\ ~Terminated(ci)) =>
    TotalProgress = Cardinality({ j \in Jobs : job[j].pc \in {"ok", "failed"} })

\* C19: for every integer max_simultaneous the pool is created with at least
\* one worker: creating it never ends the script, and once the candidates
\* are staged the dispatch goes on with max_workers >= 1.
C19_PoolHasWorker ==
  /\ pc # "crashed"
  /\ pc \in {"submit", "collect", "shutdown", "done", "propagated"} =>
       (Len(files_to_convert) > 0 => MaxWorkers >= 1)

\* C17: the hardware profile.  nvidia wins when its probe shows a GPU, else
\* amd when its probe shows one, else cpu; a probe that raised counts as not
\* present; the encoder is hevc_nvenc / hevc_amf / libx265, and the preset is
\* the --preset given, else slow for either accelerator and veryslow for
\* software.
PresentNvidia == ~host.nvidia_smi.raised /\ In("GPU", host.nvidia_smi.out)
PresentAmd ==
  /\ ~host.lspci.raised
  /\ In("AMD", host.lspci.out) \/ In("Radeon", host.lspci.out)
C17_HardwareProfile ==
  /\ pc \in {"select", "command", "built"} =>
       /\ PresentNvidia => gpu_type = "nvidia"
       /\ (~PresentNvidia /\ PresentAmd) => gpu_type = "amd"
       /\ (~PresentNvidia /\ ~PresentAmd) => gpu_type = "cpu"
  /\ pc \in {"command", "built"} =>
       /\ gpu_type = "nvidia" => video_encoder = "hevc_nvenc"
       /\ gpu_type = "amd" => video_encoder = "hevc_amf"
       /\ gpu_type = "cpu" => video_encoder = "libx265"
       /\ args.preset # NoneS => preset = args.preset
       /\ (args.preset = NoneS /\ gpu_type \in {"nvidia", "amd"}) =>
            preset = "slow"
       /\ (args.preset = NoneS /\ gpu_type = "cpu") => preset = "veryslow"
\* The nvidia probe raised, lspci shows a Radeon, no --preset: amd / slow.
C17_Witness ==
  /\ pc = "built"
  /\ host.nvidia_smi.raised
  /\ PresentAmd
  /\ gpu_type = "amd"
  /\ video_encoder = "hevc_amf"
  /\ preset = "slow"

\* The command line the claim C18 describes, for a choice of which optional
\* settings count as supplied.
ExpectedCommand(has) ==
  LET file == files_to_convert[1]
  IN << "ffmpeg", "-i", Text(PathStr(OldFullName(file))),
        "-c:v", video_encoder,
        "-b:v", IF args.bitrate # NoneS THEN args.bitrate
                ELSE get_original_bitrate(host),
        "-preset", preset,
        "-c:a", args.audio_codec,
        "-b:a", args.audio_bitrate,
        "-progress", "pipe:1" >>
     \o (IF has.scale THEN << "-vf", "scale=" \o args.resolution >> ELSE <<>>)
     \o (IF has.framerate THEN << "-r", ToString(args.framerate) >> ELSE <<>>)
     \o (IF has.crf THEN << "-crf", ToString(args.crf) >> ELSE <<>>)
     \o (IF has.threads THEN << "-threads", ToString(args.threads) >> ELSE <<>>)
     \o (IF has.audio_filter THEN << "-af", args.audio_filter >> ELSE <<>>)
     \o (IF has.strip THEN << "-map_metadata", "-1" >> ELSE <<>>)
     \o << Text(PathStr(OutputName(file, output_format))) >>

C20_NoRestaging ==
  /\ pc # "census" => \A c \in Candidates : c[1] # OLD
  /\ pc = "mkold" => \A c \in Candidates : fs[c].k # "out"
  /\ \A p \in DOMAIN fs : ~(Len(p) >= 2 /\ p[1] = OLD /\ p[2] = OLD)

====
